---- MODULE Spec2Model ----
(***************************************************************************)
(* Model of wordle.py (class WordleWordLearning): the two-pass scorer      *)
(* check_guess, the attempt loop _play_round and the session loop          *)
(* start_game with its length menu.                                        *)
(*                                                                         *)
(* Strings are sequences of one-character strings.  The three feedback     *)
(* marks of the source (check mark, circle, cross) are written Hit,        *)
(* Present, Absent.                                                        *)
(*                                                                         *)
(* Two specifications:                                                     *)
(*   ScoreSpec  check_guess run step by step on every pair (guess, target) *)
(*              of words of length <= MaxLen, equal length or not;         *)
(*   Spec       the program: load_words, then start_game (FairSpec adds    *)
(*              the player's eventual valid answer).                       *)
(***************************************************************************)
EXTENDS Integers, Sequences, FiniteSets

VARIABLES
    pc,              \* where the program (or the scorer) stands
    guess,           \* check_guess: parameter guess (last call)
    target,          \* check_guess: parameter target (last call)
    feedback,        \* check_guess: local feedback / its return value
    remaining,       \* check_guess: local Counter
    i,               \* check_guess: loop index of the running pass (1-based)
    words,           \* self.words: sequence of <<word, meaning>>
    selected_length, \* self.selected_length: None or the accepted input
    target_word,     \* start_game / _play_round: target_word (None between rounds)
    attempt,         \* _play_round: loop variable of range(6)
    result,          \* _play_round: "running", "True" or "False"
    calls,           \* history: check_guess calls made in the current round
    accepted,        \* history: inputs the round's validator accepted
    rejected,        \* history: the round's validator has rejected an input
    wins,            \* history: all-Hit feedbacks seen in the current round
    call_targets,    \* history: targets passed to check_guess in the round
    none_selected    \* history: select_word has returned (None, None)

vars == <<pc, guess, target, feedback, remaining, i, words, selected_length,
          target_word, attempt, result, calls, accepted, rejected, wins,
          call_targets, none_selected>>

scorer_vars == <<guess, target, feedback, remaining, i>>
game_vars == <<words, selected_length, target_word, attempt, result, calls,
               accepted, rejected, wins, call_targets, none_selected>>

\* ------------------------------------------------------------------ bounds

MaxLen == 3      \* ScoreSpec: longest guess and longest target
MaxInput == 3    \* Spec: longest line the player types

\* ------------------------------------------------------------- characters

\* None: only ever tested for truth or compared with a string, where it
\* behaves as the empty string does
None == <<>>
Hit == "Hit"
Present == "Present"
Absent == "Absent"
Marks == {Hit, Present, Absent}

Letters == {"a", "b", "c"}

Min(a, b) == IF a <= b THEN a ELSE b

Range(s) == {s[k] : k \in 1..Len(s)}

WordsUpTo(n) == UNION {[1..k -> Letters] : k \in 0..n}

Count(c, s) == Cardinality({k \in 1..Len(s) : s[k] = c})

\* ---------------------------------------------------------------- scorer

\* a feedback list one mark short
InitialFeedback_OffByOne(t) ==
    [k \in 1..(IF Len(t) > 0 THEN Len(t) - 1 ELSE 0) |-> Absent]

\* feedback = ['x'] * len(target)
InitialFeedback(t) == [k \in 1..Len(t) |-> Absent]

\* remaining = Counter(target): keys are the letters of target
Counter(t) == [c \in Range(t) |-> Count(c, t)]

\* a lookup whose default credits an unknown letter
Get_DefaultOne(rem, g) == IF g \in DOMAIN rem THEN rem[g] ELSE 1

\* remaining.get(g, 0)
Get(rem, g) == IF g \in DOMAIN rem THEN rem[g] ELSE 0

\* zip(guess, target) stops at the shorter of the two
ZipLen(g, t) == Min(Len(g), Len(t))

\* a first loop that marks the exact match and forgets to consume the letter
FirstPassBody_NoDecrement(st, g, t, k) ==
    IF g[k] = t[k]
    THEN [feedback |-> [st.feedback EXCEPT ![k] = Hit],
          remaining |-> st.remaining]
    ELSE st

\* body of the first loop at index k (1-based)
FirstPassBody(st, g, t, k) ==
    IF g[k] = t[k]
    THEN [feedback |-> [st.feedback EXCEPT ![k] = Hit],
          remaining |-> [st.remaining EXCEPT ![g[k]] = @ - 1]]
    ELSE st

\* a second loop without the `continue` on positions already marked Hit
SecondPassBody_NoSkip(st, g, t, k) ==
    IF Get(st.remaining, g[k]) > 0
    THEN [feedback |-> [st.feedback EXCEPT ![k] = Present],
          remaining |-> [st.remaining EXCEPT ![g[k]] = @ - 1]]
    ELSE st

\* a second loop that credits a misplaced letter without consuming it
SecondPassBody_NoDecrement(st, g, t, k) ==
    IF st.feedback[k] = Hit
    THEN st
    ELSE IF Get(st.remaining, g[k]) > 0
         THEN [feedback |-> [st.feedback EXCEPT ![k] = Present],
               remaining |-> st.remaining]
         ELSE st

\* body of the second loop at index k (1-based)
SecondPassBody(st, g, t, k) ==
    IF st.feedback[k] = Hit
    THEN st
    ELSE IF Get(st.remaining, g[k]) > 0
         THEN [feedback |-> [st.feedback EXCEPT ![k] = Present],
               remaining |-> [st.remaining EXCEPT ![g[k]] = @ - 1]]
         ELSE st

RECURSIVE FirstPass(_, _, _, _)
FirstPass(st, g, t, k) ==
    IF k > ZipLen(g, t) THEN st
    ELSE FirstPass(FirstPassBody(st, g, t, k), g, t, k + 1)

RECURSIVE SecondPass(_, _, _, _)
SecondPass(st, g, t, k) ==
    IF k > ZipLen(g, t) THEN st
    ELSE SecondPass(SecondPassBody(st, g, t, k), g, t, k + 1)

check_guess(g, t) ==
    LET s0 == [feedback |-> InitialFeedback(t), remaining |-> Counter(t)]
        s1 == FirstPass(s0, g, t, 1)
        s2 == SecondPass(s1, g, t, 1)
    IN s2.feedback

\* a win test that only asks for no Absent mark
AllHit_NoAbsent(fb) == \A k \in 1..Len(fb) : fb[k] # Absent

\* all(mark == Hit for mark in feedback)
AllHit(fb) == \A k \in 1..Len(fb) : fb[k] = Hit

\* ------------------------------------------------- ScoreSpec: the scorer alone

\* five-letter calls besides the exhaustive short ones: "allee", "eppla",
\* "xyzzz" and "apple" itself against "apple"
Allee == <<"a", "l", "l", "e", "e">>
Eppla == <<"e", "p", "p", "l", "a">>
Xyzzz == <<"x", "y", "z", "z", "z">>
Apple == <<"a", "p", "p", "l", "e">>
Scenarios == {<<Allee, Apple>>, <<Eppla, Apple>>, <<Xyzzz, Apple>>, <<Apple, Apple>>}

ScoreInit ==
    /\ \E call \in (WordsUpTo(MaxLen) \X WordsUpTo(MaxLen)) \cup Scenarios :
          /\ guess = call[1]
          /\ target = call[2]
    /\ feedback = InitialFeedback(target)
    /\ remaining = Counter(target)
    /\ i = 1
    /\ pc = "pass1"
    /\ words = <<>>
    /\ selected_length = None
    /\ target_word = None
    /\ attempt = 0
    /\ result = "running"
    /\ calls = 0
    /\ accepted = 0
    /\ rejected = FALSE
    /\ wins = 0
    /\ call_targets = {}
    /\ none_selected = FALSE

Pass1Step ==
    /\ pc = "pass1"
    /\ i <= ZipLen(guess, target)
    /\ LET st == FirstPassBody([feedback |-> feedback, remaining |-> remaining],
                               guess, target, i)
       IN /\ feedback' = st.feedback
          /\ remaining' = st.remaining
    /\ i' = i + 1
    /\ UNCHANGED <<pc, guess, target, game_vars>>

Pass1End ==
    /\ pc = "pass1"
    /\ i > ZipLen(guess, target)
    /\ pc' = "pass2"
    /\ i' = 1
    /\ UNCHANGED <<guess, target, feedback, remaining, game_vars>>

Pass2Step ==
    /\ pc = "pass2"
    /\ i <= ZipLen(guess, target)
    /\ LET st == SecondPassBody([feedback |-> feedback, remaining |-> remaining],
                                guess, target, i)
       IN /\ feedback' = st.feedback
          /\ remaining' = st.remaining
    /\ i' = i + 1
    /\ UNCHANGED <<pc, guess, target, game_vars>>

Return ==
    /\ pc = "pass2"
    /\ i > ZipLen(guess, target)
    /\ pc' = "returned"
    /\ UNCHANGED <<scorer_vars, game_vars>>

ScoreNext == Pass1Step \/ Pass1End \/ Pass2Step \/ Return

ScoreSpec == ScoreInit /\ [][ScoreNext]_vars

\* ------------------------------------------------------- strings of Python

Lower == {"a", "b", "s", "d"}
Upper == {"A", "B", "S", "D"}
Digits == {"0", "1", "2", "3"}
Space == {" "}

\* str.lower() on one character
LowerChar(c) ==
    CASE c = "A" -> "a"
      [] c = "B" -> "b"
      [] c = "S" -> "s"
      [] c = "D" -> "d"
      [] OTHER -> c

\* str.lower()
lower(s) == [k \in 1..Len(s) |-> LowerChar(s[k])]

\* str.lstrip() / str.rstrip() / str.strip()
RECURSIVE lstrip(_)
lstrip(s) == IF s # <<>> /\ Head(s) \in Space THEN lstrip(Tail(s)) ELSE s

RECURSIVE rstrip(_)
rstrip(s) ==
    IF s # <<>> /\ s[Len(s)] \in Space THEN rstrip(SubSeq(s, 1, Len(s) - 1)) ELSE s

strip(s) == rstrip(lstrip(s))

\* str.isalpha(): at least one character, all of them letters
isalpha(s) == s # <<>> /\ \A k \in 1..Len(s) : s[k] \in Lower \cup Upper

\* str.isdigit(): at least one character, all of them digits
isdigit(s) == s # <<>> /\ \A k \in 1..Len(s) : s[k] \in Digits

DigitValue(c) ==
    CASE c = "0" -> 0
      [] c = "1" -> 1
      [] c = "2" -> 2
      [] c = "3" -> 3

\* int(x) of a string of digits
RECURSIVE int(_)
int(s) ==
    IF s = <<>> THEN 0
    ELSE 10 * int(SubSeq(s, 1, Len(s) - 1)) + DigitValue(s[Len(s)])

\* what the player may type at a prompt: lines of at most MaxInput keys
Lines(keys) == UNION {[1..k -> keys] : k \in 0..MaxInput}

LengthKeys == {"0", "2", "3", " "}
GuessKeys == {"a", "b", "A", "1", " "}
ChoiceKeys == {"a", "s", "D", " "}

\* input(prompt).strip().lower()
Normalise(raw) == lower(strip(raw))

LengthLines == {Normalise(raw) : raw \in Lines(LengthKeys)}
GuessLines == {Normalise(raw) : raw \in Lines(GuessKeys)}
ChoiceLines == {Normalise(raw) : raw \in Lines(ChoiceKeys)}

\* ---------------------------------------------------------------- words

\* a spreadsheet cell: a string, or a value that is no string (a number, NaN)
Str(text) == [isstr |-> TRUE, text |-> text]
NotStr == [isstr |-> FALSE, text |-> <<>>]

\* the sheets the program is started on: rows of <<cell, meaning>>
SheetMixed ==
    << <<Str(<<"a", "b">>), "m1">>,
       <<Str(<<"B", "a">>), "m2">>,
       <<Str(<<"a", "1">>), "m3">>,
       <<NotStr, "m4">>,
       <<Str(<<"a", "a", "b">>), "m5">>,
       <<Str(<<" ", "a", "b">>), "m6">> >>

SheetOneLength ==
    << <<Str(<<"b", "b">>), "m1">>,
       <<Str(<<"A", "b">>), "m2">> >>

SheetNoWords ==
    << <<NotStr, "m1">>,
       <<Str(<<"1", "2">>), "m2">> >>

Sheets == {SheetMixed, SheetOneLength, SheetNoWords}

\* load_words: the rows whose first cell is an alphabetic string, lower-cased
RECURSIVE load_words(_)
load_words(rows) ==
    IF rows = <<>> THEN <<>>
    ELSE LET w == Head(rows)[1]
             m == Head(rows)[2]
         IN (IF w.isstr /\ isalpha(w.text)
             THEN << <<strip(lower(w.text)), m>> >>
             ELSE <<>>) \o load_words(Tail(rows))

get_available_lengths(ws) == {Len(ws[k][1]) : k \in 1..Len(ws)}

\* a menu that takes any number
length_validator_AnyDigits(x, ws) == isdigit(x)

\* the validator of prompt_length_selection
length_validator(x, ws) ==
    isdigit(x) /\ (int(x) \in get_available_lengths(ws) \/ x = <<"0">>)

\* select_word: the candidates random.choice draws from
Candidates(ws, sel) ==
    IF sel # <<>> /\ sel # <<"0">>
    THEN {ws[k] : k \in {j \in 1..Len(ws) : Len(ws[j][1]) = int(sel)}}
    ELSE Range(ws)

\* a validator that forgets the length
guess_validator_AlphaOnly(x, tw) == isalpha(x)

\* the validator of _play_round
guess_validator(x, tw) == isalpha(x) /\ Len(x) = Len(tw)

choice_validator(x) == x \in {<<"a">>, <<"s">>, <<"d">>}

MaxAttempts == 6

\* a round that scores on after a win and decides at the last attempt
AfterFeedback_NoEarlyReturn(fb, att) ==
    IF att + 1 < MaxAttempts
    THEN [pc |-> "round", result |-> "running", attempt |-> att + 1]
    ELSE [pc |-> "replay", result |-> IF AllHit(fb) THEN "True" ELSE "False",
          attempt |-> att]

\* _play_round after check_guess: return True, go on, or return False
AfterFeedback(fb, att) ==
    IF AllHit(fb)
    THEN [pc |-> "replay", result |-> "True", attempt |-> att]
    ELSE IF att + 1 < MaxAttempts
         THEN [pc |-> "round", result |-> "running", attempt |-> att + 1]
         ELSE [pc |-> "replay", result |-> "False", attempt |-> att]

\* ------------------------------------------------------- Spec: the program

\* the state after WordleWordLearning(): words loaded, nothing selected
Init ==
    /\ \E sheet \in Sheets : words = load_words(sheet)
    /\ selected_length = None
    /\ pc = "start_game"
    /\ guess = <<>>
    /\ target = <<>>
    /\ feedback = <<>>
    /\ remaining = <<>>
    /\ i = 0
    /\ target_word = None
    /\ attempt = 0
    /\ result = "running"
    /\ calls = 0
    /\ accepted = 0
    /\ rejected = FALSE
    /\ wins = 0
    /\ call_targets = {}
    /\ none_selected = FALSE

\* start_game up to its first prompt
StartGame ==
    /\ pc = "start_game"
    /\ pc' = IF words = <<>> THEN "exit" ELSE "prompt_length"
    /\ UNCHANGED <<scorer_vars, game_vars>>

\* the locals of a round that is over are gone
NoRound ==
    /\ guess' = <<>>
    /\ target' = <<>>
    /\ feedback' = <<>>
    /\ attempt' = 0
    /\ result' = "running"
    /\ calls' = 0
    /\ accepted' = 0
    /\ rejected' = FALSE
    /\ wins' = 0
    /\ call_targets' = {}
    /\ UNCHANGED <<remaining, i>>

\* the top of start_game's loop, run with selection sel, up to the next prompt
LoopTop(sel) ==
    /\ NoRound
    /\ IF Candidates(words, sel) = {}
       THEN /\ none_selected' = TRUE
            /\ target_word' = None
            /\ pc' = IF sel # <<"0">> THEN "prompt_length" ELSE "exit"
       ELSE /\ \E w \in Candidates(words, sel) : target_word' = w[1]
            /\ pc' = "round"
            /\ UNCHANGED none_selected

\* _get_valid_input in prompt_length_selection prints error_msg and asks again
LengthRejected ==
    /\ pc = "prompt_length"
    /\ \E x \in LengthLines : ~length_validator(x, words)
    /\ UNCHANGED vars

LengthAccepted ==
    /\ pc = "prompt_length"
    /\ \E x \in LengthLines :
          /\ length_validator(x, words)
          /\ selected_length' = x
          /\ LoopTop(x)
    /\ UNCHANGED words

\* _get_valid_input in _play_round prints error_msg and asks again
GuessRejected ==
    /\ pc = "round"
    /\ \E x \in GuessLines : ~guess_validator(x, target_word)
    /\ rejected' = TRUE
    /\ UNCHANGED <<pc, scorer_vars, words, selected_length, target_word, attempt,
                   result, calls, accepted, wins, call_targets, none_selected>>

\* one iteration of the loop of _play_round, from the accepted guess on
GuessAccepted ==
    /\ pc = "round"
    /\ \E x \in GuessLines :
          /\ guess_validator(x, target_word)
          /\ guess' = x
          /\ target' = target_word
          /\ feedback' = check_guess(x, target_word)
          /\ LET after == AfterFeedback(check_guess(x, target_word), attempt)
             IN /\ pc' = after.pc
                /\ result' = after.result
                /\ attempt' = after.attempt
          /\ wins' = IF AllHit(check_guess(x, target_word)) THEN wins + 1 ELSE wins
    /\ accepted' = accepted + 1
    /\ calls' = calls + 1
    /\ call_targets' = call_targets \cup {target_word}
    /\ UNCHANGED <<remaining, i, words, selected_length, target_word, rejected,
                   none_selected>>

\* _get_valid_input in start_game prints error_msg and asks again
ChoiceRejected ==
    /\ pc = "replay"
    /\ \E x \in ChoiceLines : ~choice_validator(x)
    /\ UNCHANGED vars

\* choice 'a': the loop goes round with the selection as it is
ChoiceContinue ==
    /\ pc = "replay"
    /\ \E x \in ChoiceLines : choice_validator(x) /\ x = <<"a">>
    /\ LoopTop(selected_length)
    /\ UNCHANGED <<words, selected_length>>

\* choice 's': prompt_length_selection
ChoiceReselect ==
    /\ pc = "replay"
    /\ \E x \in ChoiceLines : choice_validator(x) /\ x = <<"s">>
    /\ NoRound
    /\ pc' = "prompt_length"
    /\ UNCHANGED <<words, selected_length, target_word, none_selected>>

\* choice 'd': break
ChoiceQuit ==
    /\ pc = "replay"
    /\ \E x \in ChoiceLines : choice_validator(x) /\ x = <<"d">>
    /\ pc' = "exit"
    /\ UNCHANGED <<scorer_vars, game_vars>>

Next ==
    \/ StartGame
    \/ LengthRejected
    \/ LengthAccepted
    \/ GuessRejected
    \/ GuessAccepted
    \/ ChoiceRejected
    \/ ChoiceContinue
    \/ ChoiceReselect
    \/ ChoiceQuit

Spec == Init /\ [][Next]_vars

\* the player answers every prompt of a round with a valid guess in the end
FairSpec == Spec /\ WF_vars(GuessAccepted)

\* ------------------------------------------------ claims about the program

LoadedWords == {words[k][1] : k \in 1..Len(words)}

\* C7: every call of check_guess in a round gets a guess that is alphabetic,
\* lower-case and as long as the target, and the round's target word; an
\* input the validator rejects is not scored and uses no attempt (attempts
\* used, guesses accepted and calls made are one number while the round
\* runs); all calls of a round get the same target.
C7_OnlyValidatedGuessesScored ==
    /\ calls > 0 =>
          /\ isalpha(guess)
          /\ lower(guess) = guess
          /\ Len(guess) = Len(target)
          /\ target = target_word
    /\ call_targets \subseteq {target_word}
    /\ calls = accepted
    /\ pc = "round" => attempt = accepted
    /\ pc = "replay" => attempt = accepted - 1

\* a round in which an input was rejected and two full-length guesses scored
C7_Witness ==
    /\ pc = "round"
    /\ rejected
    /\ calls = 2
    /\ attempt = 2
    /\ Len(guess) = 3
    /\ guess # target_word

C8_Safety ==
    /\ calls <= MaxAttempts
    /\ calls = accepted
    /\ wins <= 1
    /\ wins = 1 => pc # "round" /\ result = "True"
    /\ result = "True" => wins = 1 /\ AllHit(feedback) /\ pc # "round"
    /\ result = "False" => calls = MaxAttempts /\ wins = 0 /\ pc # "round"
    /\ pc = "round" => result = "running" /\ calls < MaxAttempts
    /\ pc = "replay" => result \in {"True", "False"}

\* C8: a round scores at most 6 accepted guesses, one check_guess call each;
\* it returns True right after the first all-Hit guess and asks for no other,
\* it returns False only after 6 accepted guesses without an all-Hit one; and
\* with a player who gives a valid guess in the end, a round always ends.
C8_RoundEnds ==
    /\ []C8_Safety
    /\ (pc = "round") ~> (pc # "round")

\* a round lost at the sixth accepted guess, with a rejected input on the way
C8_Witness ==
    /\ pc = "replay"
    /\ result = "False"
    /\ calls = MaxAttempts
    /\ wins = 0
    /\ rejected

C10_Selection ==
    /\ ~none_selected
    /\ selected_length # None =>
          \/ selected_length = <<"0">>
          \/ int(selected_length) \in get_available_lengths(words)
    /\ pc = "round" =>
          /\ target_word \in LoadedWords
          /\ selected_length # <<"0">> => Len(target_word) = int(selected_length)

\* C10: with words loaded, select_word never returns (None, None); every
\* target word of a round has the selected length unless the selection is
\* "0"; the selection is "0" or (as a number) a length some word has; and
\* choice 'a' starts the next round with the selection unchanged.
C10_TargetHasSelectedLength ==
    /\ []C10_Selection
    /\ [][pc = "replay" /\ pc' = "round" => selected_length' = selected_length]_vars

\* a round on a three-letter word under the selection typed as "03"
C10_Witness ==
    /\ pc = "round"
    /\ selected_length = <<"0", "3">>
    /\ target_word = <<"a", "a", "b">>
    /\ Candidates(words, <<"0">>) # Candidates(words, selected_length)

\* ------------------------------------------------ claims about the scorer

Returned == pc = "returned"
EqualLength == Len(guess) = Len(target)
Scored == Returned /\ EqualLength

\* the letters of a call
CallLetters == Range(guess) \cup Range(target)

\* positions of the guess holding letter c
Holding(c) == {k \in 1..Len(guess) : guess[k] = c}
\* positions where guess and target both hold c
Exact(c) == {k \in Holding(c) : target[k] = c}
\* positions of the guess holding c that got Hit or Present
Credited(c) == {k \in Holding(c) : feedback[k] \in {Hit, Present}}

\* C1: after check_guess on words of equal length, position k is marked Hit
\* exactly when guess[k] = target[k]; an exact match is never Present or
\* Absent, whatever is left of its letter.
C1_HitExactness ==
    Scored => \A k \in 1..Len(guess) : (feedback[k] = Hit) <=> (guess[k] = target[k])

\* an exact match whose letter also stands earlier in the guess, where the
\* exact match has used the letter up
C1_Witness ==
    /\ Scored
    /\ \E k \in 1..Len(guess) : \E j \in 1..(k - 1) :
          /\ guess[k] = target[k]
          /\ guess[j] = guess[k]
          /\ Count(guess[k], target) = 1
          /\ feedback[k] = Hit
          /\ feedback[j] = Absent

\* C2: for every letter c, the positions of the guess that hold c and are
\* marked Hit or Present are at most as many as the occurrences of c in target.
C2_MultisetBound ==
    Scored => \A c \in CallLetters : Cardinality(Credited(c)) <= Count(c, target)

\* a letter guessed more often than the target holds it, credited to the full
C2_Witness ==
    /\ Scored
    /\ \E c \in CallLetters :
          /\ Count(c, target) >= 1
          /\ Count(c, guess) > Count(c, target)
          /\ Cardinality(Credited(c)) = Count(c, target)

\* C3: on words of equal length the feedback is all Hit (the win test of
\* _play_round) exactly when guess = target.
C3_AllHitIffIdentical ==
    Scored => (AllHit(feedback) <=> guess = target)

\* a guess that is a rearrangement of the target: no Absent mark, no win
C3_Witness ==
    /\ Scored
    /\ Len(guess) >= 2
    /\ guess # target
    /\ \A c \in CallLetters : Count(c, guess) = Count(c, target)
    /\ \A k \in 1..Len(feedback) : feedback[k] # Absent
    /\ ~AllHit(feedback)

\* C4: a letter of the guess that occurs nowhere in the target is Absent at
\* every position holding it.
C4_NoOverlapAbsent ==
    Scored => \A c \in Range(guess) :
                 c \notin Range(target) => \A k \in Holding(c) : feedback[k] = Absent

\* a foreign letter standing twice beside a letter the target does hold
C4_Witness ==
    /\ Scored
    /\ \E c \in Range(guess) :
          /\ c \notin Range(target)
          /\ Cardinality(Holding(c)) >= 2
          /\ \A k \in Holding(c) : feedback[k] = Absent
    /\ \E k \in 1..Len(guess) : feedback[k] # Absent

\* C5: a call whose guess and target differ in length does not return a
\* verdict sequence (it is refused, not truncated or padded).
C5_MismatchNotCoerced ==
    ~EqualLength => ~Returned

\* C6: on words of equal length n >= 0 check_guess always has a next step
\* until it returns, and it holds n marks, each Hit, Present or Absent; for
\* n = 0 it returns the empty sequence.
C6_TotalOnEqualLength ==
    EqualLength =>
        /\ Len(feedback) = Len(guess)
        /\ \A k \in 1..Len(feedback) : feedback[k] \in Marks
        /\ DOMAIN feedback = 1..Len(guess)
        /\ (pc \in {"pass1", "pass2"} => i \in 1..(Len(guess) + 1))
        /\ (pc \in {"pass1", "pass2"} /\ i <= Len(guess) => i \in DOMAIN feedback)
        /\ (Returned /\ Len(guess) = 0 => feedback = <<>>)

\* the empty guess against the empty target
C6_Witness ==
    /\ Returned
    /\ Len(guess) = 0
    /\ Len(target) = 0
    /\ feedback = <<>>

\* non-Hit positions of the guess holding c
Misplaced(c) == Holding(c) \ Exact(c)
\* what pass 1 leaves of c
Budget(c) == Count(c, target) - Cardinality(Exact(c))
\* how many misplaced positions of c stand left of k
Rank(c, k) == Cardinality({j \in Misplaced(c) : j < k})

\* C9: for every letter c the leftmost min(|P|, count(c in target) - h)
\* misplaced positions of c are Present and the later ones Absent; the
\* remaining count of a letter is never negative while scoring; "allee"
\* against "apple" gives Hit, Present, Absent, Absent, Hit (the last "e" is
\* an exact match, which leaves no "e" for the fourth position).
C9_LeftmostPresent ==
    /\ \A c \in DOMAIN remaining : remaining[c] >= 0
    /\ Scored =>
          \A c \in CallLetters : \A k \in Misplaced(c) :
             feedback[k] = IF Rank(c, k) < Budget(c) THEN Present ELSE Absent
    /\ Returned /\ guess = Allee /\ target = Apple =>
          feedback = <<Hit, Present, Absent, Absent, Hit>>

\* C9 as stated: the same, with "allee" against "apple" giving
\* Hit, Present, Absent, Present, Absent.
C9_AsStated ==
    /\ \A c \in DOMAIN remaining : remaining[c] >= 0
    /\ Scored =>
          \A c \in CallLetters : \A k \in Misplaced(c) :
             feedback[k] = IF Rank(c, k) < Budget(c) THEN Present ELSE Absent
    /\ Returned /\ guess = Allee /\ target = Apple =>
          feedback = <<Hit, Present, Absent, Present, Absent>>

\* a letter misplaced twice with one occurrence left: Present, then Absent
C9_Witness ==
    /\ Scored
    /\ \E c \in CallLetters : \E j, k \in Misplaced(c) :
          /\ j < k
          /\ Budget(c) = 1
          /\ feedback[j] = Present
          /\ feedback[k] = Absent

====
